---------------------------- MODULE Spec2Model ----------------------------
(***************************************************************************)
(* A model of the fake-news detector's retrieval / generation / adaptation *)
(* pipeline (src/rag_pipeline.py, src/live_retriever.py, src/generator.py, *)
(* src/tao_optimizer.py).                                                  *)
(*                                                                         *)
(* Conventions                                                             *)
(*   - A text is a sequence of tokens (strings).  Whitespace is the token  *)
(*     WS; str.strip(), str.lower(), " ".join() and the `in` substring     *)
(*     test are modelled on token sequences by Strip, Lower, Join and      *)
(*     Contains.                                                           *)
(*   - Floats are scaled integers: confidences, temperatures and the loss  *)
(*     are in hundredths (0.5 is 50, 0.01 is 1, 0.05 is 5).                *)
(*   - A Python dict with optional keys is a function whose DOMAIN is the  *)
(*     set of keys present.                                                *)
(*   - None is the string NoneValue where a label is expected.             *)
(***************************************************************************)
EXTENDS Integers, Sequences, FiniteSets, TLC

VARIABLES
    \* ---- TAOOptimizer (self.tao) ----
    training_stats,   \* [steps, updates, loss]
    last_update,      \* time of the last update
    now,              \* the wall clock read by time.time()
    tao_op,           \* the engine operation executed last
    tao_ret,          \* what that operation returned
    n_ingest,         \* history: number of non-empty continual_train calls
    sum_len,          \* history: sum of their batch lengths
    \* ---- RAGPipeline ----
    ret, gen, tao,    \* collaborators present (self.ret / self.gen / self.tao)
    pc,               \* position of the current analyze call
    text,             \* its argument
    evidence_docs, evidence_texts, decoding_cfg, out,   \* its locals
    stages,           \* history: stages attempted by the current call
    engine_ops,       \* history: engine operations executed by the current call
    retrieved,        \* history: what self.ret.retrieve returned in the current call
    tao_before,       \* history: the engine state when the current call started
    calls,            \* history: number of analyze calls started
    n_counted,        \* history: calls started with non-empty input and a generator
    \* ---- LiveRetriever.retrieve, as a function of its environment ----
    r_in, r_out,
    \* ---- Generator.generate_explanation, as a function of its inputs ----
    g_in, g_out,
    \* ---- threads inside TAOOptimizer.continual_train on the shared engine ----
    workers           \* per thread: [pc, batch, reg]

tao_vars  == <<training_stats, last_update, now, tao_op, tao_ret, n_ingest, sum_len>>
pipe_vars == <<ret, gen, tao, pc, text, evidence_docs, evidence_texts, decoding_cfg,
               out, stages, engine_ops, retrieved, tao_before, calls, n_counted>>
ret_vars  == <<r_in, r_out>>
gen_vars  == <<g_in, g_out>>
conc_vars == <<workers>>
vars      == <<tao_vars, pipe_vars, ret_vars, gen_vars, conc_vars>>

\* ------------------------------------------------------------------------
\* Bounds of the model
\* ------------------------------------------------------------------------
MaxIngest == 12      \* continual_train calls explored in SpecTAO
MaxBatch  == 2       \* longest batch handed to continual_train
MaxTime   == 1       \* clock ticks explored
MaxCalls  == 2       \* analyze calls explored in Spec
MaxTopK   == 3       \* largest top_k handed to retrieve in SpecRetriever
MaxScore  == 1       \* similarity scores are 0..MaxScore
MaxEvidence == 2     \* longest evidence list handed to the generator in SpecGenerator
MaxThreads == 3      \* threads sharing the engine in SpecConc

NoneValue == "<None>"

\* ------------------------------------------------------------------------
\* Text
\* ------------------------------------------------------------------------
WS == " "

RECURSIVE LStrip(_)
LStrip(s) == IF s # <<>> /\ Head(s) = WS THEN LStrip(Tail(s)) ELSE s

RECURSIVE RStrip(_)
RStrip(s) == IF s # <<>> /\ s[Len(s)] = WS THEN RStrip(SubSeq(s, 1, Len(s) - 1)) ELSE s

\* str.strip()
Strip(s) == RStrip(LStrip(s))

\* str.lower(), token by token
LowerTok(w) ==
    CASE w = "FALSE"      -> "false"
      [] w = "Scientific" -> "scientific"
      [] w = "Flat"       -> "flat"
      [] w = "No"         -> "no"
      [] w = "True"       -> "true"
      [] OTHER            -> w

Lower(s) == [i \in 1..Len(s) |-> LowerTok(s[i])]

\* " ".join(list of texts): the separator puts the texts' tokens side by side
RECURSIVE Join(_)
Join(ts) == IF ts = <<>> THEN <<>> ELSE Head(ts) \o Join(Tail(ts))

\* a one-token term occurs inside a longer token ("confirm" in "confirms")
TokHas(w, k) ==
    \/ w = k
    \/ <<w, k>> \in { <<"confirms", "confirm">>, <<"falsehood", "false">>,
                      <<"untrue", "true">>, <<"flatten", "flat">> }

\* term in s  (substring test); a term of several words matches word by word
Contains(s, term) ==
    \E i \in 1..(Len(s) - Len(term) + 1) :
        \A j \in 1..Len(term) :
            IF Len(term) = 1 THEN TokHas(s[i + j - 1], term[j])
                             ELSE s[i + j - 1] = term[j]

ContainsAny(s, terms) == \E t \in terms : Contains(s, t)

\* ------------------------------------------------------------------------
\* TAOOptimizer  (src/tao_optimizer.py)
\* ------------------------------------------------------------------------
Status(kind, u, l) == [kind |-> kind, updates |-> u, loss |-> l]
Max(a, b) == IF a >= b THEN a ELSE b
Min(a, b) == IF a <= b THEN a ELSE b

\* __init__
TAOInitStats == [steps |-> 0, updates |-> 0, loss |-> 0]

DefaultParams == [temperature |-> 70, num_beams |-> 4, repetition_penalty |-> 120]

\* random.uniform(0.6, 0.9), random.choice([2, 4, 6]), random.uniform(1.0, 1.3):
\* the ends and the middle of the ranges, one draw for each beam width
RandomParams ==
    { [temperature |-> 60, num_beams |-> 2, repetition_penalty |-> 100],
      [temperature |-> 75, num_beams |-> 4, repetition_penalty |-> 115],
      [temperature |-> 90, num_beams |-> 6, repetition_penalty |-> 130] }

\* Outcome of one engine call: "ok"; "error": an exception inside the try
\* block, caught by the method's own handler; "escape": an exception the
\* method's handler does not absorb, so the caller sees it.
Outcomes == {"ok", "error", "escape"}

\* optimize_generation: [raised, value, stats, last_update]
OptimizeGenerationMutTouch(st, lu, t, draw, outcome) ==
    [raised |-> outcome = "escape",
     value  |-> IF outcome = "ok" THEN draw ELSE DefaultParams,
     stats  |-> st, last_update |-> t]

OptimizeGeneration(st, lu, t, draw, outcome) ==
    [raised |-> outcome = "escape",
     value  |-> IF outcome = "ok" THEN draw ELSE DefaultParams,
     stats  |-> st, last_update |-> lu]

\* the loss recomputed from the update count: max(0.01, 0.5 - 0.05 * updates)
Loss(updates) == Max(1, 50 - 5 * updates)

\* a batch is [is_list, items]; `not data_batch or not isinstance(data_batch, list)`
NoData(batch) == batch.items = <<>> \/ ~batch.is_list

\* the updates of continual_train (lines 64-68)
TrainUpdateMutAccumulate(st, batch) ==
    [steps |-> st.steps + Len(batch.items), updates |-> st.updates + 1,
     loss |-> Max(1, st.loss - 5)]

TrainUpdate(st, batch) ==
    LET u == st.updates + 1
    IN  [steps |-> st.steps + Len(batch.items), updates |-> u, loss |-> Loss(u)]

\* continual_train: [raised, value, stats, last_update].  The device check
\* and the print after the updates are where an exception can arise.
ContinualTrain(st, lu, t, batch, outcome) ==
    IF NoData(batch)
    THEN [raised |-> FALSE, value |-> Status("No data provided for TAO training.", 0, 0),
          stats |-> st, last_update |-> lu]
    ELSE LET new == TrainUpdate(st, batch)
         IN  [raised |-> outcome = "escape",
              value  |-> IF outcome = "ok"
                         THEN Status("TAO adapted", new.updates, new.loss)
                         ELSE Status("TAO failed", 0, 0),
              stats  |-> new, last_update |-> t]

\* ------------------------------------------------------------------------
\* LiveRetriever  (src/live_retriever.py)
\* ------------------------------------------------------------------------
\* An evidence item is [source, text, score]; a score is [set, v], set = FALSE
\* being "score": None.  A source is [site, id].
NoScore == [set |-> FALSE, v |-> 0]
Scored(v) == [set |-> TRUE, v |-> v]
Item(site, id, txt, sc) == [source |-> [site |-> site, id |-> id], text |-> txt, score |-> sc]

WIKI_TOP_K == 2
NEWS_TOP_K == 3
SNIPPET_LIMIT == 1000

Prefix(s, n) == SubSeq(s, 1, Min(Len(s), n))

Found(items) == [raised |-> FALSE, items |-> items]
Thrown == [raised |-> TRUE, items |-> <<>>]

\* _search_faiss.  e = [loaded, outcome, ranking]: whether index and metadata
\* were loaded, whether encode/search works, and the index's neighbours of the
\* query, nearest first, as [text, score].
SearchFaissMutNoTry(query, top_k, e) ==
    IF ~e.loaded THEN Found(<<>>)
    ELSE IF e.outcome = "error" THEN Thrown
    ELSE Found([i \in 1..Min(top_k, Len(e.ranking)) |->
                   Item("local_FAISS", "", e.ranking[i].text, Scored(e.ranking[i].score))])

SearchFaiss(query, top_k, e) ==
    IF ~e.loaded THEN Found(<<>>)
    ELSE IF e.outcome = "error" THEN Found(<<>>)
    ELSE Found([i \in 1..Min(top_k, Len(e.ranking)) |->
                   Item("local_FAISS", "", e.ranking[i].text, Scored(e.ranking[i].score))])

\* the loop of _wikipedia_search: a title whose summary fails is skipped
RECURSIVE WikiSummaries(_)
WikiSummaries(titles) ==
    IF titles = <<>> THEN <<>>
    ELSE LET t == Head(titles)
         IN  (IF t.ok THEN <<Item("wikipedia", t.title, t.summary, NoScore)>> ELSE <<>>)
                 \o WikiSummaries(Tail(titles))

\* _wikipedia_search.  e = [outcome, titles]: whether wikipedia.search works,
\* and the titles it finds, each [ok, title, summary].
WikipediaSearch(query, top_k, e) ==
    IF e.outcome = "error" THEN Found(<<>>)
    ELSE Found(WikiSummaries(Prefix(e.titles, top_k)))

\* the loop of _newsapi_search; a null description makes the concatenation raise
NewsSnippets(articles) ==
    [i \in 1..Len(articles) |->
        Item("newsapi", articles[i].url,
             Prefix(articles[i].title \o <<".">> \o articles[i].description, SNIPPET_LIMIT),
             NoScore)]

\* _newsapi_search.  e = [has_key, outcome, articles]: NEWSAPI_KEY set, whether
\* the request works, and the articles returned, each [title, description,
\* has_description, url].
NewsapiSearch(query, top_k, e) ==
    IF ~e.has_key THEN Found(<<>>)
    ELSE IF e.outcome = "error" THEN Found(<<>>)
    ELSE IF \E i \in 1..Len(e.articles) : ~e.articles[i].has_description THEN Found(<<>>)
    ELSE Found(NewsSnippets(Prefix(e.articles, top_k)))

\* sorted(evidence, key=score, reverse=True) as the order of the indices of
\* `keys`: index i goes behind every index already placed whose key is at
\* least keys[i] (equal keys keep their order).
InsertDescMutUnstable(p, i, keys) ==
    LET n == Cardinality({ j \in 1..Len(p) : keys[p[j]] > keys[i] })
    IN  SubSeq(p, 1, n) \o <<i>> \o SubSeq(p, n + 1, Len(p))

InsertDesc(p, i, keys) ==
    LET n == Cardinality({ j \in 1..Len(p) : keys[p[j]] >= keys[i] })
    IN  SubSeq(p, 1, n) \o <<i>> \o SubSeq(p, n + 1, Len(p))

RECURSIVE SortedDescUpTo(_, _)
SortedDescUpTo(keys, n) ==
    IF n = 0 THEN <<>> ELSE InsertDesc(SortedDescUpTo(keys, n - 1), n, keys)

SortedDesc(keys) == SortedDescUpTo(keys, Len(keys))

\* [:top_k]
Truncate(s, top_k) == Prefix(s, top_k)

\* the scoring pass (lines 141-154): every score becomes the similarity of the
\* item's text to the query; order[i] is the place in `evidence` of the i-th
\* item returned.
ScoreAndRank(evidence, top_k, sim) ==
    LET scores   == [i \in 1..Len(evidence) |-> sim[evidence[i].text]]
        rescored == [i \in 1..Len(evidence) |-> [evidence[i] EXCEPT !.score = Scored(scores[i])]]
        order    == Truncate(SortedDesc(scores), top_k)
    IN  [value |-> [i \in 1..Len(order) |-> rescored[order[i]]], order |-> order]

RetrieveResult(raised, value, called, scored, candidates, order) ==
    [raised |-> raised, value |-> value, called |-> called, scored |-> scored,
     candidates |-> candidates, order |-> order]

\* retrieve.  env = [faiss, wiki, news, scoring, sim]; `called` lists the
\* adapters invoked, `scored` tells whether the scoring pass was entered.
Retrieve(query, top_k, env) ==
    IF query = <<>> THEN RetrieveResult(FALSE, <<>>, <<>>, FALSE, <<>>, <<>>)
    ELSE
    LET f == SearchFaiss(query, top_k, env.faiss)
        w == WikipediaSearch(query, WIKI_TOP_K, env.wiki)
        n == NewsapiSearch(query, NEWS_TOP_K, env.news)
        evidence == f.items \o w.items \o n.items
    IN  IF f.raised THEN RetrieveResult(TRUE, <<>>, <<"faiss">>, FALSE, <<>>, <<>>)
        ELSE IF w.raised THEN RetrieveResult(TRUE, <<>>, <<"faiss", "wikipedia">>, FALSE, <<>>, <<>>)
        ELSE IF n.raised
             THEN RetrieveResult(TRUE, <<>>, <<"faiss", "wikipedia", "newsapi">>, FALSE, <<>>, <<>>)
        ELSE LET called == <<"faiss", "wikipedia", "newsapi">>
             IN  IF evidence = <<>>
                 THEN RetrieveResult(FALSE, <<>>, called, FALSE, evidence, <<>>)
                 ELSE IF env.scoring = "error"
                 THEN RetrieveResult(FALSE, evidence, called, TRUE, evidence,
                                     [i \in 1..Len(evidence) |-> i])
                 ELSE LET r == ScoreAndRank(evidence, top_k, env.sim)
                      IN  RetrieveResult(FALSE, r.value, called, TRUE, evidence, r.order)

\* ------------------------------------------------------------------------
\* Generator  (src/generator.py)
\* ------------------------------------------------------------------------
\* The decoded model output is raw = [words, json_ok, has, label, confidence]:
\* its text, whether json.loads accepts it, and, if so, the keys of the object
\* (has), the value of "label" (a string, or NoneValue for null) and the value
\* of "confidence" ([t, n]: t = "num" when float() accepts it).
Verdict(label, confidence, explanation, counterfactual) ==
    [label |-> label, confidence |-> confidence, explanation |-> explanation,
     counterfactual |-> counterfactual, reasoning |-> <<>>]

StartsWithBrace(words) == Strip(words) # <<>> /\ Head(Strip(words)) = "{"

\* the keyword heuristic of the free-text branch (lines 78-80)
HeuristicLabel(words) ==
    IF Contains(Lower(words), <<"not", "true">>) \/ Contains(Lower(words), <<"false">>)
    THEN "Fake"
    ELSE IF Contains(Lower(words), <<"true">>) THEN "True" ELSE "Uncertain"

\* _parse_output
ParseOutput(raw) ==
    IF StartsWithBrace(raw.words)
    THEN IF ~raw.json_ok \/ ("confidence" \in raw.has /\ raw.confidence.t # "num")
         THEN Verdict("Uncertain", 50, Strip(raw.words), <<>>)
         ELSE Verdict(IF "label" \in raw.has THEN raw.label ELSE "Uncertain",
                      IF "confidence" \in raw.has THEN raw.confidence.n ELSE 60,
                      IF "explanation" \in raw.has THEN <<"because">> ELSE <<>>,
                      <<>>)
    ELSE LET label == HeuristicLabel(raw.words)
         IN  Verdict(label, IF label # "Uncertain" THEN 80 ELSE 50, Strip(raw.words), <<>>)

RefutingTerms == { <<"anti-scientific">>, <<"not", "true">>, <<"false">>, <<"hoax">>,
                   <<"conspiracy">>, <<"debunked">> }

ExplContradicts == <<"Evidence indicates the claim contradicts scientific consensus.">>
CfEmpirical     == <<"If verified empirical data supported the claim, it could be true.">>
ExplSpherical   == <<"Scientific consensus confirms Earth is spherical, not flat.">>
CfFalsified     ==
    <<"If all scientific and satellite data were falsified, the claim might appear true.">>

\* _correct_with_evidence
CorrectWithEvidenceMutSupportFirst(parsed, claim, ev_texts) ==
    LET claim_lower     == Lower(claim)
        evidence_joined == Lower(Join(ev_texts))
    IN  IF Contains(evidence_joined, <<"confirm">>) \/ Contains(evidence_joined, <<"proves">>)
        THEN [parsed EXCEPT !.label = "True", !.confidence = 90]
        ELSE IF ContainsAny(evidence_joined, RefutingTerms)
        THEN [parsed EXCEPT !.label = "Fake", !.confidence = Max(parsed.confidence, 90),
                            !.explanation = ExplContradicts, !.counterfactual = CfEmpirical]
        ELSE IF Contains(evidence_joined, <<"scientific", "consensus">>)
                /\ Contains(claim_lower, <<"flat">>)
        THEN [parsed EXCEPT !.label = "Fake", !.confidence = 95,
                            !.explanation = ExplSpherical, !.counterfactual = CfFalsified]
        ELSE IF Contains(evidence_joined, <<"no", "evidence">>)
                \/ Contains(evidence_joined, <<"unclear">>)
        THEN [parsed EXCEPT !.label = "Uncertain", !.confidence = 60]
        ELSE parsed

CorrectWithEvidence(parsed, claim, ev_texts) ==
    LET claim_lower     == Lower(claim)
        evidence_joined == Lower(Join(ev_texts))
    IN  IF ContainsAny(evidence_joined, RefutingTerms)
        THEN [parsed EXCEPT !.label = "Fake", !.confidence = Max(parsed.confidence, 90),
                            !.explanation = ExplContradicts, !.counterfactual = CfEmpirical]
        ELSE IF Contains(evidence_joined, <<"scientific", "consensus">>)
                /\ Contains(claim_lower, <<"flat">>)
        THEN [parsed EXCEPT !.label = "Fake", !.confidence = 95,
                            !.explanation = ExplSpherical, !.counterfactual = CfFalsified]
        ELSE IF Contains(evidence_joined, <<"confirm">>) \/ Contains(evidence_joined, <<"proves">>)
        THEN [parsed EXCEPT !.label = "True", !.confidence = 90]
        ELSE IF Contains(evidence_joined, <<"no", "evidence">>)
                \/ Contains(evidence_joined, <<"unclear">>)
        THEN [parsed EXCEPT !.label = "Uncertain", !.confidence = 60]
        ELSE parsed

GeneratorDefaults ==
    [max_length |-> 256, temperature |-> 70, num_beams |-> 4, repetition_penalty |-> 120]

\* `decoding_params or {...}` and the four params.get(...)
GenerateArgs(decoding_params) ==
    IF decoding_params.present
    THEN [max_length |-> 256, temperature |-> decoding_params.params.temperature,
          num_beams |-> decoding_params.params.num_beams,
          repetition_penalty |-> decoding_params.params.repetition_penalty]
    ELSE GeneratorDefaults

\* generate_explanation.  g = [outcome, raw]: whether tokenizer and model run
\* ("ok") or raise ("throw"), and the text the model decodes to.
GenerateExplanation(claim, ev_texts, decoding_params, g) ==
    IF claim = <<>>
    THEN [raised |-> FALSE, called_model |-> FALSE, args |-> GeneratorDefaults,
          value |-> [label |-> "Uncertain", confidence |-> 0, explanation |-> <<"Empty claim">>]]
    ELSE IF g.outcome = "throw"
    THEN [raised |-> TRUE, called_model |-> TRUE, args |-> GenerateArgs(decoding_params),
          value |-> [label |-> NoneValue]]
    ELSE [raised |-> FALSE, called_model |-> TRUE, args |-> GenerateArgs(decoding_params),
          value |-> CorrectWithEvidence(ParseOutput(g.raw), claim, ev_texts)]

\* ------------------------------------------------------------------------
\* RAGPipeline.analyze  (src/rag_pipeline.py)
\* ------------------------------------------------------------------------
PIPELINE_TOP_K == 6

SetKey(d, k, v) == (k :> v) @@ d

\* time.ctime(t): the timestamp as a printed date
Ctime(t) == [ctime |-> t]

\* `not text or not text.strip()`
EmptyInputMutNoStrip(t) == t = <<>>

EmptyInput(t) == t = <<>> \/ Strip(t) = <<>>

\* the dict returned for empty input (lines 92-98)
EmptyInputResult ==
    [label |-> "Uncertain", confidence |-> 0, explanation |-> <<"Empty input.">>,
     _evidence |-> <<>>, tao_status |-> Status("No input provided.", 0, 0)]

\* [d["text"] for d in evidence_docs if d.get("text")]
RECURSIVE TextsOf(_)
TextsOf(docs) ==
    IF docs = <<>> THEN <<>>
    ELSE (IF Head(docs).text # <<>> THEN <<Head(docs).text>> ELSE <<>>) \o TextsOf(Tail(docs))

\* Step 1 (lines 103-113).  r is what self.ret.retrieve did: [raised, value].
RetrieveStage(present, r) ==
    IF ~present THEN [raised |-> FALSE, docs |-> <<>>, texts |-> <<>>, outcome |-> "unavailable"]
    ELSE IF r.raised THEN [raised |-> FALSE, docs |-> <<>>, texts |-> <<>>, outcome |-> "failed"]
    ELSE [raised |-> FALSE, docs |-> r.value, texts |-> TextsOf(r.value), outcome |-> "ok"]

\* Step 2 (lines 116-124).  r is what self.tao.optimize_generation did.
ProposeStageMutNoTry(present, r) ==
    IF ~present THEN [raised |-> FALSE, cfg |-> [present |-> FALSE, params |-> DefaultParams],
                      outcome |-> "unavailable"]
    ELSE IF r.raised THEN [raised |-> TRUE, cfg |-> [present |-> FALSE, params |-> DefaultParams],
                           outcome |-> "failed"]
    ELSE [raised |-> FALSE, cfg |-> [present |-> TRUE, params |-> r.value], outcome |-> "ok"]

ProposeStage(present, r) ==
    IF ~present THEN [raised |-> FALSE, cfg |-> [present |-> FALSE, params |-> DefaultParams],
                      outcome |-> "unavailable"]
    ELSE IF r.raised THEN [raised |-> FALSE, cfg |-> [present |-> FALSE, params |-> DefaultParams],
                           outcome |-> "failed"]
    ELSE [raised |-> FALSE, cfg |-> [present |-> TRUE, params |-> r.value], outcome |-> "ok"]

\* the dict returned when self.gen is None (lines 128-134)
NoGeneratorResultMutNoEvidence(docs) ==
    [label |-> "Uncertain", confidence |-> 50, explanation |-> <<"Generator not available.">>,
     _evidence |-> <<>>, tao_status |-> Status("Skipped (no generator)", 0, 0)]

NoGeneratorResult(docs) ==
    [label |-> "Uncertain", confidence |-> 50, explanation |-> <<"Generator not available.">>,
     _evidence |-> docs, tao_status |-> Status("Skipped (no generator)", 0, 0)]

\* Step 3 with a generator (lines 136-143).  r is what
\* self.gen.generate_explanation did; str(e) is the token "<error text>".
GenerateStageMutNoTry(r) ==
    IF r.raised
    THEN [raised |-> TRUE, outcome |-> "failed",
          out |-> [label |-> "Uncertain", confidence |-> 50, explanation |-> <<"<error text>">>]]
    ELSE [raised |-> FALSE, outcome |-> "ok", out |-> r.value]

GenerateStage(r) ==
    IF r.raised
    THEN [raised |-> FALSE, outcome |-> "failed",
          out |-> [label |-> "Uncertain", confidence |-> 50, explanation |-> <<"<error text>">>]]
    ELSE IF DOMAIN r.value = {}
    THEN [raised |-> FALSE, outcome |-> "ok",
          out |-> [label |-> "Uncertain", confidence |-> 50, explanation |-> <<"No output">>]]
    ELSE [raised |-> FALSE, outcome |-> "ok", out |-> r.value]

\* out.get("label", "Uncertain")
LabelOfMutDefault(d) == "Uncertain"

LabelOf(d) == IF "label" \in DOMAIN d THEN d.label ELSE "Uncertain"

\* Steps 4 and 5 (lines 146-162).  r is what self.tao.continual_train did,
\* lu the engine's last_update after it.
IngestStageMutAlwaysStamp(present, d, docs, r, lu) ==
    LET annotated ==
            IF ~present THEN SetKey(d, "tao_status", Status("TAO module not loaded.", 0, 0))
            ELSE IF r.raised
            THEN SetKey(SetKey(d, "tao_status", Status("TAO failed", 0, 0)),
                        "last_update", Ctime(lu))
            ELSE SetKey(SetKey(d, "tao_status", r.value), "last_update", Ctime(lu))
    IN  SetKey(annotated, "_evidence", docs)

IngestStage(present, d, docs, r, lu) ==
    LET annotated ==
            IF ~present THEN SetKey(d, "tao_status", Status("TAO module not loaded.", 0, 0))
            ELSE IF r.raised THEN SetKey(d, "tao_status", Status("TAO failed", 0, 0))
            ELSE SetKey(SetKey(d, "tao_status", r.value), "last_update", Ctime(lu))
    IN  SetKey(annotated, "_evidence", docs)

\* ------------------------------------------------------------------------
\* The engine on its own: any sequence of its two operations
\* ------------------------------------------------------------------------
Samples == { [text |-> <<"earth", "is", "flat">>, label |-> "Fake"],
             [text |-> <<"water", "is", "wet">>,  label |-> "True"] }

RECURSIVE SeqsUpTo(_, _)
SeqsUpTo(S, n) ==
    IF n = 0 THEN { <<>> }
    ELSE LET shorter == SeqsUpTo(S, n - 1)
         IN  shorter \cup { Append(q, x) : q \in { r \in shorter : Len(r) = n - 1 }, x \in S }

\* every list of at most MaxBatch samples, and one argument that is no list
Batches ==
    [is_list : {TRUE}, items : SeqsUpTo(Samples, MaxBatch)]
        \cup { [is_list |-> FALSE, items |-> <<x>>] : x \in Samples }

Draws(outcome) == IF outcome = "ok" THEN RandomParams ELSE {DefaultParams}

EmptyBatch == [is_list |-> TRUE, items |-> <<>>]

NoStatus == Status("", 0, 0)
Returned(kind, status, params) == [kind |-> kind, status |-> status, params |-> params]
NoReturn == Returned("none", NoStatus, DefaultParams)

EngineOp(name, batch) == [name |-> name, batch |-> batch]

TAOConstructed ==
    /\ training_stats = TAOInitStats
    /\ now = 0
    /\ last_update = 0
    /\ tao_op = EngineOp("__init__", EmptyBatch)
    /\ tao_ret = NoReturn
    /\ n_ingest = 0
    /\ sum_len = 0

PipeIdle ==
    /\ ret = FALSE /\ gen = FALSE /\ tao = TRUE
    /\ pc = "idle" /\ text = <<>>
    /\ evidence_docs = <<>> /\ evidence_texts = <<>>
    /\ decoding_cfg = [present |-> FALSE, params |-> DefaultParams]
    /\ out = [label |-> NoneValue]
    /\ stages = <<>> /\ engine_ops = <<>> /\ retrieved = <<>>
    /\ tao_before = [stats |-> TAOInitStats, last_update |-> 0]
    /\ calls = 0 /\ n_counted = 0

RetIdle == r_in = [used |-> FALSE] /\ r_out = [done |-> FALSE]
GenIdle == g_in = [used |-> FALSE] /\ g_out = [done |-> FALSE]

\* the threads that may be inside continual_train; none is, outside SpecConc
Threads == 1..MaxThreads
Worker(p, batch, reg) == [pc |-> p, batch |-> batch, reg |-> reg]
ConcIdle == workers = [t \in Threads |-> Worker("idle", EmptyBatch, 0)]

\* time passes
Tick ==
    /\ now < MaxTime
    /\ now' = now + 1
    /\ UNCHANGED <<training_stats, last_update, tao_op, tao_ret, n_ingest, sum_len>>

\* a caller invokes optimize_generation()
CallOptimizeGeneration ==
    \E outcome \in Outcomes : \E draw \in Draws(outcome) :
        LET r == OptimizeGeneration(training_stats, last_update, now, draw, outcome)
        IN  /\ training_stats' = r.stats
            /\ last_update' = r.last_update
            /\ tao_op' = EngineOp("optimize_generation", EmptyBatch)
            /\ tao_ret' = IF r.raised THEN Returned("raised", NoStatus, DefaultParams)
                                      ELSE Returned("params", NoStatus, r.value)
            /\ UNCHANGED <<now, n_ingest, sum_len>>

\* a caller invokes continual_train(batch)
CallContinualTrain ==
    /\ n_ingest < MaxIngest
    /\ \E batch \in Batches, outcome \in Outcomes :
        LET r == ContinualTrain(training_stats, last_update, now, batch, outcome)
            counted == batch.is_list /\ batch.items # <<>>
        IN  /\ training_stats' = r.stats
            /\ last_update' = r.last_update
            /\ tao_op' = EngineOp("continual_train", batch)
            /\ tao_ret' = IF r.raised THEN Returned("raised", NoStatus, DefaultParams)
                                      ELSE Returned("status", r.value, DefaultParams)
            /\ n_ingest' = IF counted THEN n_ingest + 1 ELSE n_ingest
            /\ sum_len' = IF counted THEN sum_len + Len(batch.items) ELSE sum_len
            /\ UNCHANGED now

InitTAO == TAOConstructed /\ PipeIdle /\ RetIdle /\ GenIdle /\ ConcIdle

NextTAO ==
    \/ Tick /\ UNCHANGED <<pipe_vars, ret_vars, gen_vars, conc_vars>>
    \/ CallOptimizeGeneration /\ UNCHANGED <<pipe_vars, ret_vars, gen_vars, conc_vars>>
    \/ CallContinualTrain /\ UNCHANGED <<pipe_vars, ret_vars, gen_vars, conc_vars>>

SpecTAO == InitTAO /\ [][NextTAO]_vars

\* ------------------------------------------------------------------------
\* C8: after n >= 1 non-empty continual_train calls on a fresh engine,
\* updates = n, steps = the sum of the batch lengths, and
\* loss = max(0.01, 0.5 - 0.05 * n) (in hundredths: max(1, 50 - 5n)).
\* ------------------------------------------------------------------------
C8_CountsAndLoss ==
    n_ingest >= 1 =>
        /\ training_stats.updates = n_ingest
        /\ training_stats.steps = sum_len
        /\ training_stats.loss = IF 50 - 5 * n_ingest >= 1 THEN 50 - 5 * n_ingest ELSE 1

C8_Witness ==
    /\ n_ingest = 11
    /\ sum_len > n_ingest
    /\ training_stats.updates = 11
    /\ training_stats.loss = 1

\* ------------------------------------------------------------------------
\* C9: optimize_generation, and continual_train with an empty batch (which
\* returns the "no data" status), leave steps, updates, loss and last_update
\* as they were.
\* ------------------------------------------------------------------------
FrameOp(op) ==
    \/ op.name = "optimize_generation"
    \/ op.name = "continual_train" /\ op.batch.items = <<>>

C9_OnlyIngestWrites ==
    [][ FrameOp(tao_op') =>
        /\ training_stats' = training_stats
        /\ last_update' = last_update
        /\ (tao_op'.name = "continual_train" =>
               /\ tao_ret'.kind = "status"
               /\ tao_ret'.status.kind = "No data provided for TAO training.") ]_vars

C9_Witness ==
    /\ tao_op.name = "optimize_generation"
    /\ training_stats.updates = 2
    /\ last_update < now

\* the step just taken was a call of continual_train
TrainCalled == tao_op'.name = "continual_train" /\ now' = now

\* ------------------------------------------------------------------------
\* C13: in every state of the engine, the one right after construction
\* included, steps >= 0, updates >= 0 and loss >= 0.01 (1 in hundredths).
\* ------------------------------------------------------------------------
C13_LossAtLeastFloor ==
    /\ training_stats.steps >= 0
    /\ training_stats.updates >= 0
    /\ training_stats.loss >= 1

\* ------------------------------------------------------------------------
\* C14: the loss never increases; a non-empty continual_train leaves it
\* strictly smaller than before when it was above 0.01, and at 0.01 once
\* the floor is reached.
\* ------------------------------------------------------------------------
C14_LossNeverIncreases ==
    [][ /\ training_stats'.loss <= training_stats.loss
        /\ (n_ingest' = n_ingest + 1 =>
               IF training_stats.loss > 1
               THEN training_stats'.loss < training_stats.loss
               ELSE training_stats'.loss = 1) ]_vars

\* ------------------------------------------------------------------------
\* C17: continual_train is all-or-nothing: when it returns the "TAO failed"
\* status, steps, updates, loss and last_update are what they were before
\* the call, and it returns the "TAO adapted" status exactly when all four
\* were updated.
\* ------------------------------------------------------------------------
AllFourUpdated ==
    /\ training_stats'.steps = training_stats.steps + Len(tao_op'.batch.items)
    /\ training_stats'.updates = training_stats.updates + 1
    /\ training_stats'.loss = Loss(training_stats.updates + 1)
    /\ last_update' = now

C17_AllOrNothing ==
    [][ (TrainCalled /\ tao_ret'.kind = "status") =>
            /\ (tao_ret'.status.kind = "TAO failed" =>
                    training_stats' = training_stats /\ last_update' = last_update)
            /\ (tao_ret'.status.kind = "TAO adapted" <=>
                    (~NoData(tao_op'.batch) /\ AllFourUpdated)) ]_vars

\* ------------------------------------------------------------------------
\* The engine shared by concurrent requests: load_pipeline caches one
\* RAGPipeline (app_streamlit.py lines 88-92), so every session's thread
\* calls continual_train on the same TAOOptimizer.  The method takes no
\* lock; an augmented assignment d[k] += f(x) is a load, a call, an add and
\* a store, and the interpreter may switch threads at the call.  Each thread makes
\* one call with a non-empty batch; its steps are the loads and stores of
\* lines 64-69 and the return.  The clock stands still meanwhile.
\* ------------------------------------------------------------------------
\* the batches of the calls: 1..MaxBatch copies of one sample (the counters
\* depend on the length of a batch only)
ConcSample == [text |-> <<"earth", "is", "flat">>, label |-> "Fake"]
ConcBatches == { [is_list |-> TRUE, items |-> [i \in 1..n |-> ConcSample]] : n \in 1..MaxBatch }

SetWorker(t, w) == [workers EXCEPT ![t] = w]
At(t, p) == workers[t].pc = p
Goto(t, p, reg) == workers' = SetWorker(t, Worker(p, workers[t].batch, reg))

\* line 60: the batch is a non-empty list, the call goes on to line 64
EnterTrain(t) ==
    /\ At(t, "idle")
    /\ \E batch \in ConcBatches :
        /\ ~NoData(batch)
        /\ workers' = SetWorker(t, Worker("load_steps", batch, 0))
        /\ n_ingest' = n_ingest + 1
        /\ sum_len' = sum_len + Len(batch.items)
    /\ UNCHANGED <<training_stats, last_update, now, tao_op, tao_ret>>

\* line 64: self.training_stats["steps"] += len(data_batch); the old value
\* is loaded, len is called, the sum is stored
LoadSteps(t) ==
    /\ At(t, "load_steps")
    /\ Goto(t, "store_steps", training_stats.steps)
    /\ UNCHANGED tao_vars

StoreSteps(t) ==
    /\ At(t, "store_steps")
    /\ training_stats' =
           [training_stats EXCEPT !.steps = workers[t].reg + Len(workers[t].batch.items)]
    /\ Goto(t, "increment_updates", 0)
    /\ UNCHANGED <<last_update, now, tao_op, tao_ret, n_ingest, sum_len>>

\* line 65: self.training_stats["updates"] += 1; no call sits between this
\* load and its store, so the two are taken as one step
IncrementUpdates(t) ==
    /\ At(t, "increment_updates")
    /\ training_stats' = [training_stats EXCEPT !.updates = training_stats.updates + 1]
    /\ Goto(t, "compute_loss", 0)
    /\ UNCHANGED <<last_update, now, tao_op, tao_ret, n_ingest, sum_len>>

\* lines 66-68: the loss is computed from the update count read now ...
ComputeLoss(t) ==
    /\ At(t, "compute_loss")
    /\ Goto(t, "store_loss", Loss(training_stats.updates))
    /\ UNCHANGED tao_vars

\* ... and stored after the call of max
StoreLoss(t) ==
    /\ At(t, "store_loss")
    /\ training_stats' = [training_stats EXCEPT !.loss = workers[t].reg]
    /\ Goto(t, "stamp", 0)
    /\ UNCHANGED <<last_update, now, tao_op, tao_ret, n_ingest, sum_len>>

\* line 69: self.last_update = time.time()
Stamp(t) ==
    /\ At(t, "stamp")
    /\ last_update' = now
    /\ Goto(t, "report", 0)
    /\ UNCHANGED <<training_stats, now, tao_op, tao_ret, n_ingest, sum_len>>

\* lines 72-79: device check, print, and the status built from the state
\* as it is now; or the handler's failure status; or an exception escapes
ReturnTrain(t) ==
    /\ At(t, "report")
    /\ \E outcome \in Outcomes :
        /\ tao_op' = EngineOp("continual_train", workers[t].batch)
        /\ tao_ret' =
               CASE outcome = "ok" ->
                        Returned("status",
                                 Status("TAO adapted", training_stats.updates, training_stats.loss),
                                 DefaultParams)
                 [] outcome = "error" ->
                        Returned("status", Status("TAO failed", 0, 0), DefaultParams)
                 [] OTHER -> Returned("raised", NoStatus, DefaultParams)
    /\ Goto(t, "done", 0)
    /\ UNCHANGED <<training_stats, last_update, now, n_ingest, sum_len>>

InitConc == TAOConstructed /\ PipeIdle /\ RetIdle /\ GenIdle /\ ConcIdle

NextConc ==
    \/ \E t \in Threads : EnterTrain(t)   /\ UNCHANGED <<pipe_vars, ret_vars, gen_vars>>
    \/ \E t \in Threads : LoadSteps(t)    /\ UNCHANGED <<pipe_vars, ret_vars, gen_vars>>
    \/ \E t \in Threads : StoreSteps(t)   /\ UNCHANGED <<pipe_vars, ret_vars, gen_vars>>
    \/ \E t \in Threads : IncrementUpdates(t) /\ UNCHANGED <<pipe_vars, ret_vars, gen_vars>>
    \/ \E t \in Threads : ComputeLoss(t)  /\ UNCHANGED <<pipe_vars, ret_vars, gen_vars>>
    \/ \E t \in Threads : StoreLoss(t)    /\ UNCHANGED <<pipe_vars, ret_vars, gen_vars>>
    \/ \E t \in Threads : Stamp(t)        /\ UNCHANGED <<pipe_vars, ret_vars, gen_vars>>
    \/ \E t \in Threads : ReturnTrain(t)  /\ UNCHANGED <<pipe_vars, ret_vars, gen_vars>>

SpecConc == InitConc /\ [][NextConc]_vars

\* ------------------------------------------------------------------------
\* C11: with k concurrent non-empty continual_train calls on the shared
\* engine, once all have returned updates has grown by k, steps by the sum
\* of the batch lengths and loss = max(0.01, 0.5 - 0.05 * updates); and
\* updates never decreases.
\* ------------------------------------------------------------------------
AllReturned == \A t \in Threads : workers[t].pc \in {"idle", "done"}

C11_SerializedIngest ==
    /\ [](( AllReturned /\ n_ingest >= 1) =>
            /\ training_stats.updates = n_ingest
            /\ training_stats.steps = sum_len
            /\ training_stats.loss = Loss(training_stats.updates))
    /\ [][training_stats'.updates >= training_stats.updates]_vars

\* ------------------------------------------------------------------------
\* retrieve on its own: one call for every environment
\* ------------------------------------------------------------------------
MaxNews == 1         \* articles the news service offers

TextFalse   == <<"claim", "is", "FALSE">>
TextProves  == <<"study", "proves", "it">>
NewsTitle   == <<"report">>
NewsDesc    == <<"unclear">>
NewsText    == NewsTitle \o <<".">> \o NewsDesc
Claim       == <<"water", "is", "wet">>

Scores == 0..MaxScore

\* two indexes: their neighbours of the query alternate between two texts
NearFalse  == [text |-> TextFalse,  score |-> 1]
NearProves == [text |-> TextProves, score |-> 1]
Rankings ==
    { [i \in 1..MaxTopK |-> IF i % 2 = 1 THEN NearFalse ELSE NearProves],
      [i \in 1..MaxTopK |-> IF i % 2 = 1 THEN NearProves ELSE NearFalse] }

FaissEnvs ==
    { [loaded |-> FALSE, outcome |-> "ok", ranking |-> <<>>] }
        \cup [loaded : {TRUE}, outcome : {"error"}, ranking : {<<>>}]
        \cup [loaded : {TRUE}, outcome : {"ok"}, ranking : Rankings]

Titles == { [ok |-> TRUE,  title |-> "Falsehood", summary |-> TextFalse],
            [ok |-> TRUE,  title |-> "Proof",     summary |-> TextProves],
            [ok |-> FALSE, title |-> "Missing",   summary |-> <<>>] }

WikiEnvs ==
    { [outcome |-> "error", titles |-> <<>>] }
        \cup [outcome : {"ok"}, titles : SeqsUpTo(Titles, WIKI_TOP_K)]

Articles == { [title |-> NewsTitle, description |-> NewsDesc, has_description |-> TRUE,
               url |-> "news/1"],
              [title |-> NewsTitle, description |-> <<>>, has_description |-> FALSE,
               url |-> "news/2"] }

NewsEnvs ==
    { [has_key |-> FALSE, outcome |-> "ok", articles |-> <<>>] }
        \cup [has_key : {TRUE}, outcome : {"error"}, articles : {<<>>}]
        \cup [has_key : {TRUE}, outcome : {"ok"}, articles : SeqsUpTo(Articles, MaxNews)]

RetrieverTexts == {TextFalse, TextProves, NewsText}
ZeroSim == [t \in RetrieverTexts |-> 0]

RetrieverEnvs ==
    [faiss : FaissEnvs, wiki : WikiEnvs, news : NewsEnvs, scoring : {"ok"},
     sim : [RetrieverTexts -> Scores]]
        \cup [faiss : FaissEnvs, wiki : WikiEnvs, news : NewsEnvs, scoring : {"error"},
              sim : {ZeroSim}]

RetrieverInputs ==
    [used : {TRUE}, query : {Claim}, top_k : 1..MaxTopK, env : RetrieverEnvs]
        \cup [used : {TRUE}, query : {<<>>}, top_k : {MaxTopK},
              env : { e \in RetrieverEnvs : e.scoring = "error" /\ ~e.faiss.loaded
                                            /\ e.wiki.titles = <<>> /\ ~e.news.has_key }]

InitRetriever ==
    /\ TAOConstructed /\ PipeIdle /\ GenIdle /\ ConcIdle
    /\ r_in \in RetrieverInputs
    /\ r_out = [done |-> FALSE]

\* a caller invokes retrieve(query, top_k)
CallRetrieve ==
    /\ ~r_out.done
    /\ r_out' = [done |-> TRUE, res |-> Retrieve(r_in.query, r_in.top_k, r_in.env)]
    /\ UNCHANGED r_in

NextRetriever == CallRetrieve /\ UNCHANGED <<tao_vars, pipe_vars, gen_vars, conc_vars>>

SpecRetriever == InitRetriever /\ [][NextRetriever]_vars

FaissFails(e) == ~e.loaded \/ e.outcome = "error"
WikiFails(e)  == e.outcome = "error"
NewsFails(e)  == ~e.has_key \/ e.outcome = "error"
                    \/ \E i \in 1..Len(e.articles) : ~e.articles[i].has_description

\* ------------------------------------------------------------------------
\* C6: when the concatenation of the adapters' outputs is not empty and the
\* scoring pass succeeds, retrieve returns at most top_k items, each with the
\* recomputed query/text similarity as its score, in descending score order,
\* items of equal score in the order of the concatenation.
\* ------------------------------------------------------------------------
C6_RankedTopK ==
    (r_out.done /\ r_in.query # <<>> /\ r_in.env.scoring = "ok"
        /\ r_out.res.candidates # <<>>) =>
    LET v == r_out.res.value
        c == r_out.res.candidates
        o == r_out.res.order
    IN  /\ ~r_out.res.raised
        /\ Len(v) <= r_in.top_k
        /\ Len(o) = Len(v)
        /\ \A i \in 1..Len(v) :
              /\ o[i] \in 1..Len(c)
              /\ v[i].text = c[o[i]].text
              /\ v[i].source = c[o[i]].source
              /\ v[i].score.set
              /\ v[i].score.v = r_in.env.sim[v[i].text]
        /\ \A i, j \in 1..Len(v) :
              i < j => \/ v[i].score.v > v[j].score.v
                       \/ v[i].score.v = v[j].score.v /\ o[i] < o[j]

C6_Witness ==
    /\ r_out.done /\ r_in.env.scoring = "ok"
    /\ Len(r_out.res.candidates) > r_in.top_k
    /\ Len(r_out.res.value) = r_in.top_k
    /\ \E i, j \in 1..Len(r_out.res.value) :
          /\ i < j
          /\ r_out.res.value[i].score.v = r_out.res.value[j].score.v
          /\ r_out.res.value[i].source.site # r_out.res.value[j].source.site
    /\ \E i, j \in 1..Len(r_out.res.value) :
          /\ i < j
          /\ r_out.res.value[i].score.v > r_out.res.value[j].score.v
          /\ r_out.res.order[i] > r_out.res.order[j]
    /\ \E i \in 1..Len(r_out.res.candidates) :
          r_out.res.candidates[i].score.set
            /\ r_out.res.candidates[i].score.v # r_in.env.sim[r_out.res.candidates[i].text]

\* ------------------------------------------------------------------------
\* C7: whichever adapters fail, retrieve does not raise, all three adapters
\* are called in the order local index, encyclopedia, news, the candidates
\* handed to scoring are the non-failing adapters' results in that order,
\* and when there are none retrieve returns the empty list without scoring.
\* ------------------------------------------------------------------------
C7_FailureIsolation ==
    (r_out.done /\ r_in.query # <<>>) =>
    LET e == r_in.env
        f == IF FaissFails(e.faiss) THEN <<>>
             ELSE SearchFaiss(r_in.query, r_in.top_k, e.faiss).items
        w == IF WikiFails(e.wiki) THEN <<>>
             ELSE WikipediaSearch(r_in.query, WIKI_TOP_K, e.wiki).items
        n == IF NewsFails(e.news) THEN <<>>
             ELSE NewsapiSearch(r_in.query, NEWS_TOP_K, e.news).items
    IN  /\ ~r_out.res.raised
        /\ r_out.res.called = <<"faiss", "wikipedia", "newsapi">>
        /\ r_out.res.candidates = f \o w \o n
        /\ (f \o w \o n = <<>> => ~r_out.res.scored /\ r_out.res.value = <<>>)
        /\ (f \o w \o n # <<>> => r_out.res.scored)

C7_Witness ==
    /\ r_out.done /\ r_in.query # <<>>
    /\ r_in.env.faiss.loaded /\ r_in.env.faiss.outcome = "error"
    /\ r_in.env.news.has_key /\ NewsFails(r_in.env.news)
    /\ ~WikiFails(r_in.env.wiki)
    /\ Len(r_out.res.candidates) = 2
    /\ r_out.res.candidates[1].source.site = "wikipedia"
    /\ r_out.res.scored

\* ------------------------------------------------------------------------
\* C15: whatever path retrieve takes, the scoring pass failing included, the
\* list it returns is no longer than the requested top_k.
\* ------------------------------------------------------------------------
C15_AtMostTopK ==
    (r_out.done /\ ~r_out.res.raised) => Len(r_out.res.value) <= r_in.top_k

\* ------------------------------------------------------------------------
\* generate_explanation on its own: one call for every input
\* ------------------------------------------------------------------------
FlatClaim == <<"the", "earth", "is", "Flat">>

TextConsensus  == <<"Scientific", "consensus", "confirms">>
TextNoEvidence == <<"No", "evidence", "found">>
TextNot        == <<"it", "is", "not">>
TextTrueStory  == <<"true", "story">>
TextWeather    == <<"weather", "report">>

GeneratorTexts == { TextFalse, TextProves, TextConsensus, TextNoEvidence, TextNot,
                    TextTrueStory, TextWeather }

Raw(words, json_ok, has, label, t, n) ==
    [words |-> words, json_ok |-> json_ok, has |-> has, label |-> label,
     confidence |-> [t |-> t, n |-> n]]

FreeText(words) == Raw(words, FALSE, {}, NoneValue, "num", 0)
Json(has, label, t, n) == Raw(<<WS, "{", "json", "}">>, TRUE, has, label, t, n)

RawOutputs ==
    { FreeText(<<"the", "claim", "is", "True">>),
      FreeText(<<"this", "is", "not", "true">>),
      FreeText(<<"that", "is", "a", "falsehood">>),
      FreeText(<<WS, "cannot", "say", WS>>),
      Raw(<<"{", "label">>, FALSE, {}, NoneValue, "num", 0),
      Json({}, NoneValue, "num", 0),
      Json({"label", "confidence", "explanation"}, "True", "num", 70),
      Json({"label", "confidence"}, "Fake", "num", 99),
      Json({"label", "confidence"}, "Uncertain", "bad", 0),
      Json({"label"}, "Maybe", "num", 0),
      Json({"label", "confidence"}, NoneValue, "num", 40) }

GeneratorEnvs == [outcome : {"ok"}, raw : RawOutputs]
                    \cup { [outcome |-> "throw", raw |-> FreeText(<<>>)] }

NoParams == [present |-> FALSE, params |-> DefaultParams]

GeneratorInputs ==
    [used : {TRUE}, claim : {Claim, FlatClaim},
     evidence_texts : SeqsUpTo(GeneratorTexts, MaxEvidence),
     decoding_params : {NoParams}, g : GeneratorEnvs]
        \cup [used : {TRUE}, claim : {<<>>}, evidence_texts : {<<>>, <<TextFalse>>},
              decoding_params : {NoParams, [present |-> TRUE, params |-> DefaultParams]},
              g : { e \in GeneratorEnvs : e.outcome = "throw" }]

InitGenerator ==
    /\ TAOConstructed /\ PipeIdle /\ RetIdle /\ ConcIdle
    /\ g_in \in GeneratorInputs
    /\ g_out = [done |-> FALSE]

\* a caller invokes generate_explanation(claim, evidence_texts, decoding_params)
CallGenerateExplanation ==
    /\ ~g_out.done
    /\ g_out' = [done |-> TRUE,
                 res  |-> GenerateExplanation(g_in.claim, g_in.evidence_texts,
                                              g_in.decoding_params, g_in.g)]
    /\ UNCHANGED g_in

NextGenerator == CallGenerateExplanation /\ UNCHANGED <<tao_vars, pipe_vars, ret_vars, conc_vars>>

SpecGenerator == InitGenerator /\ [][NextGenerator]_vars

Labels == {"True", "Fake", "Uncertain"}

\* ------------------------------------------------------------------------
\* C10: the correction is first-match-wins over a, b, c, d.  a (a refuting
\* term in the evidence) gives Fake with confidence max(parsed, 0.9); else b
\* ("scientific consensus" in the evidence, "flat" in the claim) gives Fake
\* with 0.95; else c ("confirm" or "proves") gives True; else d ("no
\* evidence" or "unclear") gives Uncertain with 0.6; else the parsed verdict
\* is returned as it is.
\* ------------------------------------------------------------------------
C10_FirstMatchWins ==
    (g_out.done /\ g_in.claim # <<>> /\ g_in.g.outcome = "ok") =>
    LET ej     == Lower(Join(g_in.evidence_texts))
        parsed == ParseOutput(g_in.g.raw)
        v      == g_out.res.value
        a == \E t \in RefutingTerms : Contains(ej, t)
        b == Contains(ej, <<"scientific", "consensus">>) /\ Contains(Lower(g_in.claim), <<"flat">>)
        c == Contains(ej, <<"confirm">>) \/ Contains(ej, <<"proves">>)
        d == Contains(ej, <<"no", "evidence">>) \/ Contains(ej, <<"unclear">>)
    IN  /\ a => v.label = "Fake" /\ v.confidence >= 90 /\ v.confidence >= parsed.confidence
                  /\ v.confidence \in {90, parsed.confidence}
        /\ (~a /\ b) => v.label = "Fake" /\ v.confidence = 95
        /\ (~a /\ ~b /\ c) => v.label = "True" /\ v.explanation = parsed.explanation
        /\ (~a /\ ~b /\ ~c /\ d) => v.label = "Uncertain" /\ v.confidence = 60
        /\ (~a /\ ~b /\ ~c /\ ~d) => v = parsed

C10_Witness ==
    /\ g_out.done /\ g_in.g.outcome = "ok"
    /\ g_in.evidence_texts = <<TextProves, TextFalse>>
    /\ ParseOutput(g_in.g.raw).label = "True"
    /\ g_out.res.value.label = "Fake"

\* ------------------------------------------------------------------------
\* The pipeline: analyze calls, one after the other, on one RAGPipeline
\* ------------------------------------------------------------------------
PipelineTexts == { <<>>, <<WS, WS>>, Claim }

NoFaiss == [loaded |-> FALSE, outcome |-> "ok", ranking |-> <<>>]
NoNews  == [has_key |-> FALSE, outcome |-> "ok", articles |-> <<>>]

PipelineSim ==
    [t \in RetrieverTexts \cup {TextWeather, <<>>} |-> IF t = TextFalse THEN 1 ELSE 0]

PipelineRetrieverEnvs ==
    { \* nothing found
      [faiss |-> NoFaiss, wiki |-> [outcome |-> "error", titles |-> <<>>], news |-> NoNews,
       scoring |-> "ok", sim |-> PipelineSim],
      \* two summaries, ranked
      [faiss |-> NoFaiss,
       wiki |-> [outcome |-> "ok",
                 titles |-> << [ok |-> TRUE, title |-> "Proof", summary |-> TextProves],
                               [ok |-> TRUE, title |-> "Falsehood", summary |-> TextFalse] >>],
       news |-> NoNews, scoring |-> "ok", sim |-> PipelineSim],
      \* a summary without keywords and an empty one
      [faiss |-> NoFaiss,
       wiki |-> [outcome |-> "ok",
                 titles |-> << [ok |-> TRUE, title |-> "Weather", summary |-> TextWeather],
                               [ok |-> TRUE, title |-> "Blank", summary |-> <<>>] >>],
       news |-> NoNews, scoring |-> "ok", sim |-> PipelineSim],
      \* index and news found, scoring fails
      [faiss |-> [loaded |-> TRUE, outcome |-> "ok",
                  ranking |-> [i \in 1..MaxTopK |-> NearProves]],
       wiki |-> [outcome |-> "error", titles |-> <<>>],
       news |-> [has_key |-> TRUE, outcome |-> "ok",
                 articles |-> << [title |-> NewsTitle, description |-> NewsDesc,
                                  has_description |-> TRUE, url |-> "news/1"] >>],
       scoring |-> "error", sim |-> PipelineSim] }

RetrieveThrows == RetrieveResult(TRUE, <<>>, <<>>, FALSE, <<>>, <<>>)

\* what self.ret.retrieve(text, top_k=6) can do, for every text
RetrievalTable ==
    [t \in PipelineTexts |->
        { Retrieve(t, PIPELINE_TOP_K, env) : env \in PipelineRetrieverEnvs }
            \cup {RetrieveThrows}]

PipelineRetrievals(t) == RetrievalTable[t]

PipelineGeneratorEnvs ==
    { [outcome |-> "ok", raw |-> FreeText(<<"the", "claim", "is", "True">>)],
      [outcome |-> "ok", raw |-> Json({"label"}, "Maybe", "num", 0)],
      [outcome |-> "ok", raw |-> Json({"confidence"}, NoneValue, "num", 70)],
      [outcome |-> "throw", raw |-> FreeText(<<>>)] }

StageEntry(stage, outcome) == [stage |-> stage, outcome |-> outcome]
OpEntry(name, returned) == [name |-> name, returned |-> returned]

Init ==
    /\ TAOConstructed /\ RetIdle /\ GenIdle /\ ConcIdle
    /\ ret \in BOOLEAN /\ gen \in BOOLEAN /\ tao \in BOOLEAN
    /\ pc = "idle" /\ text = <<>>
    /\ evidence_docs = <<>> /\ evidence_texts = <<>>
    /\ decoding_cfg = NoParams
    /\ out = <<>>
    /\ stages = <<>> /\ engine_ops = <<>> /\ retrieved = <<>>
    /\ tao_before = [stats |-> TAOInitStats, last_update |-> 0]
    /\ calls = 0 /\ n_counted = 0

\* analyze(text) is called; lines 91-100
Start ==
    /\ pc \in {"idle", "done"}
    /\ calls < MaxCalls
    /\ \E t \in PipelineTexts :
        /\ text' = t
        /\ IF EmptyInput(t)
           THEN pc' = "done" /\ out' = EmptyInputResult
           ELSE pc' = "retrieve" /\ out' = <<>>
    /\ calls' = calls + 1
    /\ n_counted' = IF ~EmptyInput(text') /\ gen THEN n_counted + 1 ELSE n_counted
    /\ evidence_docs' = <<>> /\ evidence_texts' = <<>> /\ decoding_cfg' = NoParams
    /\ stages' = <<>> /\ engine_ops' = <<>> /\ retrieved' = <<>>
    /\ tao_before' = [stats |-> training_stats, last_update |-> last_update]
    /\ UNCHANGED <<ret_vars, gen_vars, conc_vars, ret, gen, tao, tao_vars>>

\* Step 1: Retrieve
StepRetrieve ==
    /\ pc = "retrieve"
    /\ \E r \in (IF ret THEN PipelineRetrievals(text) ELSE {RetrieveThrows}) :
        LET st == RetrieveStage(ret, r)
        IN  /\ evidence_docs' = st.docs
            /\ evidence_texts' = st.texts
            /\ retrieved' = IF ret /\ ~r.raised THEN r.value ELSE <<>>
            /\ stages' = Append(stages, StageEntry("Retrieve", st.outcome))
            /\ pc' = IF st.raised THEN "raised" ELSE "propose"
    /\ UNCHANGED <<ret_vars, gen_vars, conc_vars, n_counted, ret, gen, tao, text, decoding_cfg, out, engine_ops, tao_before, calls,
                   tao_vars>>

\* Step 2: TAO optimization, with an engine
StepProposeEngine ==
    /\ pc = "propose" /\ tao
    /\ \E outcome \in Outcomes : \E draw \in Draws(outcome) :
        LET r  == OptimizeGeneration(training_stats, last_update, now, draw, outcome)
            st == ProposeStage(TRUE, r)
        IN  /\ training_stats' = r.stats
            /\ last_update' = r.last_update
            /\ tao_op' = EngineOp("optimize_generation", EmptyBatch)
            /\ tao_ret' = IF r.raised THEN Returned("raised", NoStatus, DefaultParams)
                                      ELSE Returned("params", NoStatus, r.value)
            /\ decoding_cfg' = st.cfg
            /\ engine_ops' = Append(engine_ops, OpEntry("optimize_generation", ~r.raised))
            /\ stages' = Append(stages, StageEntry("Propose", st.outcome))
            /\ pc' = IF st.raised THEN "raised" ELSE "generate"
    /\ UNCHANGED <<ret_vars, gen_vars, conc_vars, n_counted, ret, gen, tao, text, evidence_docs, evidence_texts, out, retrieved,
                   tao_before, calls, now, n_ingest, sum_len>>

\* Step 2 without an engine
StepProposeNoEngine ==
    /\ pc = "propose" /\ ~tao
    /\ LET st == ProposeStage(FALSE, [raised |-> FALSE, value |-> DefaultParams])
       IN  /\ decoding_cfg' = st.cfg
           /\ stages' = Append(stages, StageEntry("Propose", st.outcome))
           /\ pc' = IF st.raised THEN "raised" ELSE "generate"
    /\ UNCHANGED <<ret_vars, gen_vars, conc_vars, n_counted, ret, gen, tao, text, evidence_docs, evidence_texts, out, engine_ops,
                   retrieved, tao_before, calls, tao_vars>>

\* Step 3 without a generator: analyze returns
StepNoGenerator ==
    /\ pc = "generate" /\ ~gen
    /\ out' = NoGeneratorResult(evidence_docs)
    /\ stages' = Append(stages, StageEntry("Generate", "unavailable"))
    /\ pc' = "done"
    /\ UNCHANGED <<ret_vars, gen_vars, conc_vars, n_counted, ret, gen, tao, text, evidence_docs, evidence_texts, decoding_cfg,
                   engine_ops, retrieved, tao_before, calls, tao_vars>>

\* Step 3: Generate
StepGenerate ==
    /\ pc = "generate" /\ gen
    /\ \E g \in PipelineGeneratorEnvs :
        LET r  == GenerateExplanation(text, evidence_texts, decoding_cfg, g)
            st == GenerateStage(r)
        IN  /\ out' = st.out
            /\ stages' = Append(stages, StageEntry("Generate", st.outcome))
            /\ pc' = IF st.raised THEN "raised" ELSE "ingest"
    /\ UNCHANGED <<ret_vars, gen_vars, conc_vars, n_counted, ret, gen, tao, text, evidence_docs, evidence_texts, decoding_cfg,
                   engine_ops, retrieved, tao_before, calls, tao_vars>>

\* Steps 4 and 5 with an engine: continual training, attach evidence, return
StepIngestEngine ==
    /\ pc = "ingest" /\ tao
    /\ \E outcome \in Outcomes :
        LET sample == [text |-> text, label |-> LabelOf(out)]
            batch  == [is_list |-> TRUE, items |-> <<sample>>]
            r      == ContinualTrain(training_stats, last_update, now, batch, outcome)
        IN  /\ training_stats' = r.stats
            /\ last_update' = r.last_update
            /\ tao_op' = EngineOp("continual_train", batch)
            /\ tao_ret' = IF r.raised THEN Returned("raised", NoStatus, DefaultParams)
                                      ELSE Returned("status", r.value, DefaultParams)
            /\ n_ingest' = n_ingest + 1
            /\ sum_len' = sum_len + 1
            /\ out' = IngestStage(TRUE, out, evidence_docs, r, r.last_update)
            /\ engine_ops' = Append(engine_ops, OpEntry("continual_train", ~r.raised))
            /\ stages' = Append(stages, StageEntry("Ingest", IF r.raised THEN "failed" ELSE "ok"))
    /\ pc' = "done"
    /\ UNCHANGED <<ret_vars, gen_vars, conc_vars, n_counted, ret, gen, tao, text, evidence_docs, evidence_texts, decoding_cfg,
                   retrieved, tao_before, calls, now>>

\* Steps 4 and 5 without an engine
StepIngestNoEngine ==
    /\ pc = "ingest" /\ ~tao
    /\ out' = IngestStage(FALSE, out, evidence_docs,
                          [raised |-> FALSE, value |-> NoStatus], last_update)
    /\ stages' = Append(stages, StageEntry("Ingest", "unavailable"))
    /\ pc' = "done"
    /\ UNCHANGED <<ret_vars, gen_vars, conc_vars, n_counted, ret, gen, tao, text, evidence_docs, evidence_texts, decoding_cfg,
                   engine_ops, retrieved, tao_before, calls, tao_vars>>

\* time passes between two calls
TickIdle ==
    /\ pc \in {"idle", "done"}
    /\ Tick
    /\ UNCHANGED <<pipe_vars, ret_vars, gen_vars, conc_vars>>

AnalyzeStep ==
    \/ StepRetrieve
    \/ StepProposeEngine
    \/ StepProposeNoEngine
    \/ StepNoGenerator
    \/ StepGenerate
    \/ StepIngestEngine
    \/ StepIngestNoEngine

Next ==
    \/ Start
    \/ StepRetrieve
    \/ StepProposeEngine
    \/ StepProposeNoEngine
    \/ StepNoGenerator
    \/ StepGenerate
    \/ StepIngestEngine
    \/ StepIngestNoEngine
    \/ TickIdle

Spec == Init /\ [][Next]_vars

Running == {"retrieve", "propose", "generate", "ingest"}
ResultKeys == {"label", "confidence", "explanation", "_evidence", "tao_status"}
Blank(t) == \A i \in 1..Len(t) : t[i] = WS
IngestReturned == \E i \in 1..Len(engine_ops) : engine_ops[i] = OpEntry("continual_train", TRUE)

\* ------------------------------------------------------------------------
\* C1: whatever the input, whichever collaborators are present and whichever
\* stages throw, no exception leaves analyze: a running call can always take
\* its next step, and a finished call has returned a result.
\* ------------------------------------------------------------------------
C1_AlwaysReturns ==
    /\ pc # "raised"
    /\ pc \in Running => ENABLED AnalyzeStep
    /\ pc = "done" => ResultKeys \subseteq DOMAIN out

C1_Witness ==
    /\ pc = "done"
    /\ stages = << StageEntry("Retrieve", "failed"), StageEntry("Propose", "failed"),
                   StageEntry("Generate", "failed"), StageEntry("Ingest", "failed") >>

\* ------------------------------------------------------------------------
\* C2: the label of every result analyze returns is True, Fake or Uncertain.
\* ------------------------------------------------------------------------
C2_LabelInEnum == pc = "done" => out.label \in Labels

\* ------------------------------------------------------------------------
\* C3, as claimed: every result carries _evidence and tao_status, and
\* carries last_update unless no engine operation ran during the call.
\* ------------------------------------------------------------------------
C3_LastUpdateUnlessEngineIdle ==
    pc = "done" =>
        /\ {"_evidence", "tao_status"} \subseteq DOMAIN out
        /\ ("last_update" \notin DOMAIN out => engine_ops = <<>>)

\* ------------------------------------------------------------------------
\* C3, amended: every result carries _evidence and tao_status, and carries
\* last_update (the engine's last_update, as a date) exactly when
\* continual_train returned during the call.
\* ------------------------------------------------------------------------
C3_LastUpdateIffIngestReturned ==
    pc = "done" =>
        /\ {"_evidence", "tao_status"} \subseteq DOMAIN out
        /\ ("last_update" \in DOMAIN out <=> IngestReturned)
        /\ ("last_update" \in DOMAIN out => out.last_update = Ctime(last_update))

C3_Witness ==
    /\ pc = "done" /\ tao /\ ~gen /\ ~Blank(text)
    /\ engine_ops = <<OpEntry("optimize_generation", TRUE)>>
    /\ "last_update" \notin DOMAIN out

\* ------------------------------------------------------------------------
\* C4: for empty or whitespace-only input analyze returns Uncertain, 0.0,
\* "Empty input." and no evidence, without running any stage or engine
\* operation, and the engine's state is what it was before the call.
\* ------------------------------------------------------------------------
C4_EmptyInput ==
    (pc = "done" /\ Blank(text)) =>
        /\ out.label = "Uncertain"
        /\ out.confidence = 0
        /\ out.explanation = <<"Empty input.">>
        /\ out._evidence = <<>>
        /\ stages = <<>> /\ engine_ops = <<>> /\ retrieved = <<>>
        /\ training_stats = tao_before.stats
        /\ last_update = tao_before.last_update

C4_Witness ==
    /\ pc = "done" /\ text = <<WS, WS>>
    /\ ret /\ gen /\ tao
    /\ calls = 2 /\ training_stats.updates = 1
    /\ out.explanation = <<"Empty input.">>

\* ------------------------------------------------------------------------
\* C5, as claimed: without a generator, non-empty input gives Uncertain,
\* 0.5, explanation "Generator not available", status "Skipped (no
\* generator)" and the evidence retrieved in this call.
\* ------------------------------------------------------------------------
NoGeneratorCase == pc = "done" /\ ~gen /\ ~Blank(text)

C5_ExplanationWithoutPeriod ==
    NoGeneratorCase =>
        /\ out.label = "Uncertain"
        /\ out.confidence = 50
        /\ out.explanation = <<"Generator not available">>
        /\ out.tao_status.kind = "Skipped (no generator)"
        /\ out._evidence = retrieved

\* ------------------------------------------------------------------------
\* C5, amended: the explanation is "Generator not available." (it ends with
\* a period); the rest as claimed.
\* ------------------------------------------------------------------------
C5_NoGenerator ==
    NoGeneratorCase =>
        /\ out.label = "Uncertain"
        /\ out.confidence = 50
        /\ out.explanation = <<"Generator not available.">>
        /\ out.tao_status.kind = "Skipped (no generator)"
        /\ out._evidence = retrieved
        /\ (~ret \/ stages[1].outcome = "failed" => out._evidence = <<>>)

C5_Witness ==
    /\ NoGeneratorCase /\ ret
    /\ Len(retrieved) = 2
    /\ out._evidence = retrieved
    /\ out._evidence[1].score.set

\* ------------------------------------------------------------------------
\* C12: on non-empty input the stages are attempted in the order Retrieve,
\* Propose, Generate, Ingest, each at most once; when Retrieve or Propose
\* fails or is unavailable, Generate is still attempted, with no evidence,
\* respectively without decoding parameters; after a thrown Generate come
\* Ingest and the return.
\* ------------------------------------------------------------------------
StageOrder == <<"Retrieve", "Propose", "Generate", "Ingest">>
StageNames == [i \in 1..Len(stages) |-> stages[i].stage]
NextStage == <<"retrieve", "propose", "generate", "ingest">>

C12_StageOrder ==
    (calls > 0 /\ ~Blank(text)) =>
        /\ Len(stages) <= 4
        /\ StageNames = SubSeq(StageOrder, 1, Len(stages))
        /\ pc \in Running \cup {"done"}
        /\ (pc \in Running => pc = NextStage[Len(stages) + 1])
        /\ (pc = "done" => Len(stages) = IF gen THEN 4 ELSE 3)
        /\ ((Len(stages) >= 1 /\ stages[1].outcome # "ok") =>
                evidence_docs = <<>> /\ evidence_texts = <<>>)
        /\ ((Len(stages) >= 2 /\ stages[2].outcome # "ok") => ~decoding_cfg.present)
        /\ ((Len(stages) = 3 /\ stages[3].outcome = "failed") =>
                pc = "ingest" /\ ENABLED (StepIngestEngine \/ StepIngestNoEngine))

C12_Witness ==
    /\ pc = "done" /\ ~ret /\ tao /\ gen
    /\ stages = << StageEntry("Retrieve", "unavailable"), StageEntry("Propose", "failed"),
                   StageEntry("Generate", "failed"), StageEntry("Ingest", "ok") >>
    /\ evidence_texts = <<>> /\ ~decoding_cfg.present

\* ------------------------------------------------------------------------
\* C16: with an engine, after any series of analyze calls steps = updates =
\* the number of calls that had non-empty input and a generator (a thrown
\* generation counts); a call with empty input or without a generator
\* changes neither; a counted call ingests one sample, and its label is the
\* label of the result the call returns.
\* ------------------------------------------------------------------------
C16_OneSamplePerCall ==
    (tao /\ pc \in {"idle", "done"}) =>
        /\ training_stats.steps = n_counted
        /\ training_stats.updates = n_counted
        /\ ((pc = "done" /\ (Blank(text) \/ ~gen)) =>
                /\ training_stats.steps = tao_before.stats.steps
                /\ training_stats.updates = tao_before.stats.updates)
        /\ ((pc = "done" /\ ~Blank(text) /\ gen) =>
                /\ training_stats.steps = tao_before.stats.steps + 1
                /\ training_stats.updates = tao_before.stats.updates + 1
                /\ tao_op.name = "continual_train"
                /\ Len(tao_op.batch.items) = 1
                /\ tao_op.batch.items[1].text = text
                /\ tao_op.batch.items[1].label = out.label)

C16_Witness ==
    /\ tao /\ gen /\ pc = "done"
    /\ calls = 2 /\ n_counted = 1
    /\ text = Claim /\ stages[3].outcome = "failed"
    /\ training_stats.updates = 1 /\ training_stats.steps = 1
    /\ out.label = "Uncertain"

=============================================================================
